---------------------------- MODULE Spec2Model ----------------------------
(***************************************************************************)
(* No-Ping: the packet interception engine and its latency probe loop      *)
(* (src/src/network/packet_handler.py, class PacketHandler) and the game   *)
(* lifecycle detector (src/src/steam/game_detector.py, class GameDetector).*)
(*                                                                         *)
(* Threads are interleaved at the level of the statements that read or     *)
(* write a field of the shared object; a thread's purely local work is     *)
(* folded into the shared access that follows it.                          *)
(*                                                                         *)
(* Specifications:                                                         *)
(*   Spec         the packet handler with its callers, restarts included:  *)
(*                two threads that call start_capture, stop_capture from   *)
(*                outside, one probe thread per started capture;           *)
(*   SpecRestart  the same, with the history of the writes of the best     *)
(*                route;                                                   *)
(*   SpecProbe    one capture session probing two candidates, with the     *)
(*                history of its probe cycles;                             *)
(*   SpecDetector the game detector polling a changing process table;      *)
(*   SpecLog      the server detection of SteamManager tailing the game's  *)
(*                log files (src/src/steam/steam_manager.py);              *)
(*   SpecService  the orchestrator (src/src/background.py) whose launched   *)
(*                callback runs in the detector's polling thread;          *)
(*   SpecShutdown the shutdown of the service, stop_capture taken          *)
(*                statement by statement, against the running threads;     *)
(*   SpecShutdownFair  the same under a scheduler that starves no thread;  *)
(*   SpecCycle    the probe thread of one session whose candidates'        *)
(*                latencies may be far apart;                              *)
(*   SpecLibrary  the game detector with the steam_path that was found,    *)
(*                empty or not, polling programs in and around the library;*)
(*   SpecRejoin   the game detector stopped and started again while its    *)
(*                polling thread is alive;                                 *)
(*   SpecOptimizer  the path optimization of NetworkOptimizer              *)
(*                (src/src/network/optimizer.py).                          *)
(***************************************************************************)
EXTENDS Integers, Sequences, FiniteSets, TLC

(***************************************************************************)
(* Bounds of the model.                                                    *)
(***************************************************************************)
\* Number of WinDivert handles start_capture may construct in one run.
MaxSessions == 2

\* Number of launched/closed callbacks recorded in one run.
MaxEvents == 3

\* Number of programs that run at the same time in SpecLibrary.
MaxRunning == 2

\* Number of on_server_change callbacks recorded in one run.
MaxServerEvents == 2

\* Number of lines the log files can hold together, each line one unit of
\* size.
MaxLog == 2

\* The tail of a newly selected log file that is read, in the same unit
\* (8192 bytes in the code), and the number of lines kept of it.
Window == 1
TailLines == 100

\* float('inf'), the default of ping_stats.get(self.best_route, ...).
Inf == 1000

\* Python's None for best_route / current_game, and an unset reference.
None == "None"
NoHandle == 0

\* Python's None where a latency in ms is expected.
NoLatency == 0

\* Threads that call start_capture (tray thread, detector thread, ...).
Callers == {"t1", "t2"}

\* Latencies a ping can report (ms).  Any two differ by less than 10 %.
Latencies == {19, 20, 21}

\* Outcome of one ping: no "time=" in the output, or one latency.
PingResults == {<< >>} \cup {<<t>> : t \in Latencies}

\* Arguments of start_capture.
PortSets == {{1}, {2}}
TargetLists == {<< >>, <<"A">>}

\* Inputs of Spec and of SpecProbe.
EnginePingResults == {<< >>, <<19>>, <<20>>}

\* Outcomes of a ping in SpecCycle: two latencies far apart.
CycleResults == {<< >>, <<19>>, <<40>>}
ProbeTargetLists == {<<"A", "B">>, <<"B", "A">>}

\* Packets the network can carry: to port 1 of the game, from port 2 of it.
Packets ==
    {[src_port |-> sd[1], dst_port |-> sd[2], src_addr |-> "H",
      dst_addr |-> "G", payload |-> "d"] :
        sd \in {<<9, 1>>, <<2, 9>>}}

\* The log files of the game's log directory and the lines the game
\* writes: one that matches the game's server_log_pattern, one that does
\* not.
LogFiles == {"f1", "f2"}
LogLines == {"Selected Region: EU", "Connecting"}

\* The games set_current_game can select: one with a log directory and a
\* server_log_pattern.
Games == {[log_dir |-> "logs", server_log_pattern |-> TRUE]}

\* None for current_game and for current_server.
NoGame == [log_dir |-> None, server_log_pattern |-> FALSE]
NoServer == [region |-> None, timestamp |-> 0]

\* self.steam_path, as SteamManager found it: the first of the usual
\* places that exists or, if none does, the empty string
\* (steam_manager.py, _find_steam_path).
SteamPath == <<"C:", "Steam">>
SteamPaths == {<< >>, SteamPath}

NoPacket ==
    [src_port |-> 0, dst_port |-> 0, src_addr |-> "", dst_addr |-> "",
     payload |-> ""]

Handles == 1..MaxSessions

VARIABLES
    is_running,     \* PacketHandler.is_running
    game_ports,     \* PacketHandler.game_ports
    windivert,      \* PacketHandler.windivert: NoHandle or a handle id
    handles,        \* per handle: its state and the ports of its filter
    ping_stats,     \* PacketHandler.ping_stats: a dict, IP -> latency
    best_route,     \* PacketHandler.best_route
    last_write,     \* the last "New best route" log line, see PrCompare
    rx,             \* per caller: its position in start_capture/_process_packets
    pr,             \* per handle: the _monitor_ping thread started with it
    obs,            \* history of the probe threads
    gd_is_running,  \* GameDetector.is_running
    gd_thread,      \* the _monitor_games thread
    gd_stale,       \* a _monitor_games thread that stop() gave up joining
    current_game,   \* GameDetector.current_game
    steam_path,     \* GameDetector.steam_path
    procs,          \* the process table: pids of the running processes
    events,         \* the callbacks GameDetector has invoked, in order
    gobs,           \* history of the polls: the game found and for how long
    logs,           \* the *.log files of the log directory: their lines
    newest,         \* the log file with the latest mtime, None if none
    sm_current_game,    \* SteamManager.current_game
    current_log_file,   \* SteamManager._current_log_file
    last_log_size,      \* SteamManager._last_log_size
    current_server,     \* SteamManager.current_server
    stop_monitoring,    \* SteamManager.stop_monitoring (an Event)
    monitoring_thread,  \* the _monitor_server_changes thread
    server_events,      \* the regions on_server_change was called with
    lobs,           \* history of the reads of the log files
    current_region, \* NetworkOptimizer.current_region
    best_routes,    \* NetworkOptimizer.best_routes: region -> best_latency
    oobs            \* history of the calls of the optimizer

pvars == <<is_running, game_ports, windivert, handles, ping_stats,
           best_route, last_write, rx, pr>>

dvars ==
    <<gd_is_running, gd_thread, gd_stale, current_game, steam_path, procs,
      events, gobs>>

lvars == <<logs, newest, sm_current_game, current_log_file, last_log_size,
           current_server, stop_monitoring, monitoring_thread, server_events,
           lobs>>

ovars == <<current_region, best_routes, oobs>>

vars == <<pvars, obs, dvars, lvars, ovars>>

(***************************************************************************)
(* Pure helpers.                                                           *)
(***************************************************************************)
\* dict.get(key, default)
Get(d, k, default) == IF k \in DOMAIN d THEN d[k] ELSE default

\* d[k] = v on a dict
Put(d, k, v) == [x \in DOMAIN d \cup {k} |-> IF x = k THEN v ELSE d[x]]

\* _build_filter_string: "false" for no ports, else the OR over the ports of
\* tcp/udp DstPort == port or SrcPort == port.
FilterMatches(ports, p) ==
    /\ ports # {}
    /\ \E port \in ports : p.dst_port = port \/ p.src_port = port

\* The test of _process_packets lines 107-108.
IsGamePacket(p, ports) == p.dst_port \in ports \/ p.src_port \in ports

\* Python truthiness of best_route (None and "" are false).
Truthy(route) == route # None /\ route # ""

\* Line 116: packet.dst_addr = self.best_route
RewriteSkip(p, route) == p
RewritePort(p, route) == [p EXCEPT !.dst_addr = route, !.dst_port = 0]
Rewrite(p, route) == [p EXCEPT !.dst_addr = route]

\* Lines 105-122: what _process_packets does to a received packet before
\* it sends it.
ProcessNoRouteTest(p, ports, route) ==
    IF IsGamePacket(p, ports) THEN Rewrite(p, route) ELSE p
ProcessNoPortTest(p, ports, route) ==
    IF Truthy(route) THEN Rewrite(p, route) ELSE p
Process(p, ports, route) ==
    IF IsGamePacket(p, ports) /\ Truthy(route) THEN Rewrite(p, route) ELSE p

\* Line 53: the test that decides whether ip becomes the best route.
IsBetter(ping_time, stats, route) ==
    route = None \/ ping_time < Get(stats, route, Inf)

(***************************************************************************)
(* History of the probe threads (not program state):                       *)
(*   on     whether the history of the cycles is kept (SpecProbe);         *)
(*   writes whether the history of the writes is kept (SpecRestart);       *)
(*   all    every ping of the cycle under way returned a latency;          *)
(*   full   0: no cycle has completed with a latency for every candidate,  *)
(*          1: the cycle that has just completed is the first such cycle,  *)
(*          2: later;                                                      *)
(*   moved  the cycle under way has replaced a published best route;       *)
(*   flips  number of cycles in a row, up to the last completed one, that  *)
(*          each replaced a published best route (counted up to 2);        *)
(*   err    the exception handler of the receive loop has ended the        *)
(*          capture;                                                       *)
(*   reach  whether the answers of the cycle are kept (SpecCycle);         *)
(*   lost   the candidate whose ping, in the cycle under way or just       *)
(*          completed, returned no latency while it was the best route     *)
(*          (None if none);                                                *)
(*   heard  in that cycle a candidate other than the best route returned   *)
(*          a latency.                                                     *)
(***************************************************************************)
NoObs ==
    [on |-> FALSE, writes |-> FALSE, all |-> TRUE, full |-> 0,
     moved |-> FALSE, flips |-> 0, err |-> FALSE, reach |-> FALSE,
     lost |-> None, heard |-> FALSE]

ObsStart(o) ==
    IF ~o.on THEN o
    ELSE [o EXCEPT !.all = TRUE, !.moved = FALSE,
                   !.full = IF o.full = 0 THEN 0 ELSE 2,
                   !.lost = None, !.heard = FALSE]

ObsLost(o, ip, route) ==
    IF o.reach /\ ip = route THEN [o EXCEPT !.lost = ip] ELSE o

ObsHeard(o, ip, route) ==
    IF o.reach /\ ip # route THEN [o EXCEPT !.heard = TRUE] ELSE o

ObsErr(o, stopped) ==
    IF o.on /\ stopped THEN [o EXCEPT !.err = TRUE] ELSE o

ObsMiss(o) == IF o.on /\ o.full = 0 THEN [o EXCEPT !.all = FALSE] ELSE o

ObsMove(o, moved) == IF o.on /\ moved THEN [o EXCEPT !.moved = TRUE] ELSE o

ObsEnd(o, last) ==
    IF ~o.on \/ ~last THEN o
    ELSE [o EXCEPT !.full = IF o.full = 0 /\ o.all THEN 1 ELSE o.full,
                   !.flips = IF o.moved
                             THEN (IF o.flips < 2 THEN o.flips + 1 ELSE 2)
                             ELSE 0]

(***************************************************************************)
(* Initial state: PacketHandler.__init__ and GameDetector.__init__.        *)
(***************************************************************************)
\* A caller outside start_capture.  Of a caller inside _process_packets:
\* h the handle its recv() waits on, packet the local variable, and for the
\* properties orig, the packet as recv() returned it, game, the outcome of
\* the port test of lines 107-108, and route, the best route the test of
\* line 111 read for a game packet.
IdleRx ==
    [pc |-> "idle", h |-> NoHandle, packet |-> NoPacket, orig |-> NoPacket,
     game |-> FALSE, route |-> None]

\* A probe thread: its target_ips, its place in the for loop, the local
\* ping_time and, for the properties, whether the ip it has just sampled
\* was the best route when the sample was recorded.
NoProber ==
    [pc |-> "none", ips |-> << >>, idx |-> 0, ping_time |-> 0,
     incumbent |-> FALSE]

\* No _monitor_games thread: pc is its position, snap the pids that
\* psutil.process_iter listed for the poll under way.
NoThread == [pc |-> "none", snap |-> {}]

\* No thread left behind by stop(): of such a thread, game_name is the
\* local variable of line 106.
NoStale == [pc |-> "none", snap |-> {}, game_name |-> None]

\* History of the polls (not program state): name, the game the last poll
\* found (None if none); polls, how many polls in a row have found it
\* (counted up to 2); launches, how many of these polls have called
\* on_game_launched (counted up to 2); on, whether the processes a poll
\* passes over are kept track of (SpecLibrary); skipped, the last poll has
\* passed over a process that raised an access error (its pid, 0 if none).
NoPolls ==
    [name |-> None, polls |-> 0, launches |-> 0, on |-> FALSE, skipped |-> 0]

InitPacketHandler ==
    /\ is_running = FALSE
    /\ game_ports = {}
    /\ windivert = NoHandle
    /\ handles = [h \in Handles |-> [state |-> "unused", ports |-> {}]]
    /\ ping_stats = << >>
    /\ best_route = None
    /\ last_write = "fresh"
    /\ rx = [c \in Callers |-> IdleRx]
    /\ pr = [h \in Handles |-> NoProber]

InitGameDetector ==
    /\ gd_is_running = FALSE
    /\ gd_thread = NoThread
    /\ gd_stale = NoStale
    /\ current_game = None
    /\ steam_path = SteamPath
    /\ procs = {}
    /\ events = << >>
    /\ gobs = NoPolls

\* No _monitor_server_changes thread: pc is its position; latest_log and
\* current_size are the locals of _detect_current_server.
NoMonitor == [pc |-> "none", latest_log |-> None, current_size |-> 0]

\* History of the reads of _detect_current_server (not program state):
\* file, the file the last read scanned; prev, the file that was the
\* tailed one before it; from and upto, the offsets between which it
\* scanned (upto is the end of the file as it found it); hi, the highest
\* offset of the tailed file, as it is now, that a read has scanned.
NoReads == [file |-> None, prev |-> None, from |-> 0, upto |-> 0, hi |-> 0]

\* SteamManager.__init__, and a log directory with no log file.
InitSteamManager ==
    /\ logs = [f \in LogFiles |-> << >>]
    /\ newest = None
    /\ sm_current_game = NoGame
    /\ current_log_file = None
    /\ last_log_size = 0
    /\ current_server = NoServer
    /\ stop_monitoring = FALSE
    /\ monitoring_thread = NoMonitor
    /\ server_events = << >>
    /\ lobs = NoReads

\* History of the calls of the optimizer (not program state): call, the
\* method called last; latency, what _measure_latency returned to it; applied,
\* whether it has applied the path optimizations (TTL, routing, QoS).
NoCalls == [call |-> "none", latency |-> NoLatency, applied |-> FALSE]

\* NetworkOptimizer.__init__
InitOptimizer ==
    /\ current_region = None
    /\ best_routes = << >>
    /\ oobs = NoCalls

InitProgram ==
    InitPacketHandler /\ InitGameDetector /\ InitSteamManager /\ InitOptimizer

Init == InitProgram /\ obs = NoObs

InitProbe == InitProgram /\ obs = [NoObs EXCEPT !.on = TRUE]

InitCycle == InitProgram /\ obs = [NoObs EXCEPT !.on = TRUE, !.reach = TRUE]

InitRestart ==
    InitProgram
    /\ obs = [NoObs EXCEPT !.writes = TRUE]

(***************************************************************************)
(* start_capture / stop_capture.                                           *)
(***************************************************************************)
NextHandle == CHOOSE h \in Handles : handles[h].state = "unused"

HandleOpen(h) == h # NoHandle /\ handles[h].state = "open"

\* stop_capture (lines 131-142): nothing unless a handle is set and the
\* engine is running; else clear is_running, join the probe thread for at
\* most 1 s (the thread goes on on its own) and close the handle.
StopEffect ==
    IF windivert # NoHandle /\ is_running
    THEN /\ is_running' = FALSE
         /\ handles' = [handles EXCEPT ![windivert].state = "closed"]
    ELSE UNCHANGED <<is_running, handles>>

\* start_capture that, called while the engine is running, takes the new
\* ports.
StartCaptureRebuilds(c, ports, ips) ==
    /\ rx[c].pc = "idle"
    /\ is_running
    /\ game_ports' = ports
    /\ UNCHANGED <<is_running, windivert, handles, ping_stats, best_route,
                   last_write, rx, pr>>
    /\ UNCHANGED <<obs, dvars, lvars, ovars>>

\* start_capture called while the engine is running: lines 69-70.
StartCaptureRunning(c, ports, ips) ==
    /\ rx[c].pc = "idle"
    /\ is_running
    /\ UNCHANGED <<pvars, obs, dvars, lvars, ovars>>

\* start_capture that sets is_running before open() raises.
OpenFailsRunning(c, ports, ips) ==
    /\ rx[c].pc = "idle"
    /\ ~is_running
    /\ \E h \in Handles : handles[h].state = "unused"
    /\ game_ports' = ports
    /\ windivert' = NextHandle
    /\ handles' = [handles EXCEPT ![NextHandle] =
                      [state |-> "failed", ports |-> ports]]
    /\ is_running' = TRUE
    /\ UNCHANGED <<ping_stats, best_route, last_write, rx, pr>>

\* start_capture whose WinDivert.open() raises (lines 72-78, 94-96), as it
\* acts on the packet handler.
OpenFails(c, ports, ips) ==
    /\ rx[c].pc = "idle"
    /\ ~is_running
    /\ \E h \in Handles : handles[h].state = "unused"
    /\ game_ports' = ports
    /\ windivert' = NextHandle
    /\ handles' = [handles EXCEPT ![NextHandle] =
                      [state |-> "failed", ports |-> ports]]
    /\ UNCHANGED <<is_running, ping_stats, best_route, last_write, rx, pr>>

StartCaptureFail(c, ports, ips) ==
    /\ OpenFails(c, ports, ips)
    /\ UNCHANGED <<obs, dvars, lvars, ovars>>

\* start_capture that opens the handle (lines 72-92), as it acts on the
\* packet handler.  The caller goes on into _process_packets (line 92); a
\* probe thread is started if target_ips is given.
OpenAndProcess(c, ports, ips) ==
    /\ rx[c].pc = "idle"
    /\ ~is_running
    /\ \E h \in Handles : handles[h].state = "unused"
    /\ game_ports' = ports
    /\ windivert' = NextHandle
    /\ handles' = [handles EXCEPT ![NextHandle] =
                      [state |-> "open", ports |-> ports]]
    /\ is_running' = TRUE
    /\ pr' = IF ips # << >>
               THEN [pr EXCEPT ![NextHandle] =
                        [NoProber EXCEPT !.pc = "head", !.ips = ips]]
               ELSE pr
    /\ rx' = [rx EXCEPT ![c].pc = "head"]
    /\ UNCHANGED <<ping_stats, best_route, last_write>>

StartCapture(c, ports, ips) ==
    /\ OpenAndProcess(c, ports, ips)
    /\ UNCHANGED <<obs, dvars, lvars, ovars>>

\* stop_capture called from outside (tray, shutdown, game closed).
StopCapture ==
    /\ StopEffect
    /\ UNCHANGED <<game_ports, windivert, ping_stats, best_route, last_write,
                   rx, pr>>
    /\ UNCHANGED <<obs, dvars, lvars, ovars>>

(***************************************************************************)
(* _process_packets, run by the caller of start_capture.                   *)
(***************************************************************************)
\* Line 101: while self.is_running ("sent": back from a send()).
RxHead(c) ==
    /\ rx[c].pc \in {"head", "sent"}
    /\ IF is_running
       THEN rx' = [rx EXCEPT ![c] = [IdleRx EXCEPT !.pc = "recv",
                                                   !.h = windivert]]
       ELSE rx' = [rx EXCEPT ![c] = IdleRx]
    /\ UNCHANGED <<is_running, game_ports, windivert, handles, ping_stats,
                   best_route, last_write, pr>>
    /\ UNCHANGED <<obs, dvars, lvars, ovars>>

\* Line 103: recv() returns a packet that passes the handle's filter.
RxRecv(c, p) ==
    /\ rx[c].pc = "recv"
    /\ HandleOpen(rx[c].h)
    /\ FilterMatches(handles[rx[c].h].ports, p)
    /\ rx' = [rx EXCEPT ![c].pc = "got", ![c].packet = p, ![c].orig = p]
    /\ UNCHANGED <<is_running, game_ports, windivert, handles, ping_stats,
                   best_route, last_write, pr>>
    /\ UNCHANGED <<obs, dvars, lvars, ovars>>

\* Line 103 raising (the handle was closed): lines 127-129.
RxRecvError(c) ==
    /\ rx[c].pc = "recv"
    /\ ~HandleOpen(rx[c].h)
    /\ StopEffect
    /\ rx' = [rx EXCEPT ![c] = IdleRx]
    /\ UNCHANGED <<game_ports, windivert, ping_stats, best_route, last_write,
                   pr>>
    /\ obs' = ObsErr(obs, windivert # NoHandle /\ is_running)
    /\ UNCHANGED <<dvars, lvars, ovars>>

\* Lines 105-122.  best_route is read at line 111 and again at line 116;
\* it is never reset to None, so the two reads are one read at line 116.
RxProcess(c) ==
    /\ rx[c].pc = "got"
    /\ rx' = [rx EXCEPT ![c].pc = "send",
                        ![c].game = IsGamePacket(rx[c].packet, game_ports),
                        ![c].route = IF IsGamePacket(rx[c].packet, game_ports)
                                     THEN best_route ELSE None,
                        ![c].packet = Process(rx[c].packet, game_ports,
                                              best_route)]
    /\ UNCHANGED <<is_running, game_ports, windivert, handles, ping_stats,
                   best_route, last_write, pr>>
    /\ UNCHANGED <<obs, dvars, lvars, ovars>>

\* Line 125: send() succeeds.
RxSend(c) ==
    /\ rx[c].pc = "send"
    /\ HandleOpen(windivert)
    /\ rx' = [rx EXCEPT ![c].pc = "sent"]
    /\ UNCHANGED <<is_running, game_ports, windivert, handles, ping_stats,
                   best_route, last_write, pr>>
    /\ UNCHANGED <<obs, dvars, lvars, ovars>>

\* Line 125 raising (reinjection failure, or a closed handle): lines
\* 127-129 log the error and stop the capture; the packet is not sent.
RxSendError(c) ==
    /\ rx[c].pc = "send"
    /\ StopEffect
    /\ rx' = [rx EXCEPT ![c] = IdleRx]
    /\ UNCHANGED <<game_ports, windivert, ping_stats, best_route, last_write,
                   pr>>
    /\ obs' = ObsErr(obs, windivert # NoHandle /\ is_running)
    /\ UNCHANGED <<dvars, lvars, ovars>>

(***************************************************************************)
(* _monitor_ping, one thread per start_capture with target_ips.            *)
(***************************************************************************)
CurrentIp(s) == pr[s].ips[pr[s].idx]

LastIp(s) == pr[s].idx = Len(pr[s].ips)

\* The end of one pass of the for loop of line 36: the next ip, or the
\* sleep of line 61 and back to the test of line 34.
Advance(p) ==
    IF p.idx < Len(p.ips)
    THEN [p EXCEPT !.pc = "ping", !.idx = p.idx + 1, !.ping_time = 0,
                   !.incumbent = FALSE]
    ELSE [p EXCEPT !.pc = "head", !.idx = 0, !.ping_time = 0,
                   !.incumbent = FALSE]

\* Line 34: while self.is_running; a thread that leaves the loop is gone.
PrHead(s) ==
    /\ pr[s].pc = "head"
    /\ IF is_running
       THEN /\ pr' = [pr EXCEPT ![s].pc = "ping", ![s].idx = 1]
            /\ obs' = ObsStart(obs)
       ELSE /\ pr' = [pr EXCEPT ![s] = NoProber]
            /\ UNCHANGED obs
    /\ UNCHANGED <<is_running, game_ports, windivert, handles, ping_stats,
                   best_route, last_write, rx>>
    /\ UNCHANGED <<dvars, lvars, ovars>>

\* One ping that, without "time=" in its output, records the ip as
\* unreachable.
PrPingForgets(s, res) ==
    /\ pr[s].pc = "ping"
    /\ IF res = << >>
       THEN /\ pr' = [pr EXCEPT ![s] = Advance(pr[s])]
            /\ obs' = ObsEnd(ObsMiss(ObsLost(obs, CurrentIp(s), best_route)),
                             LastIp(s))
            /\ ping_stats' = Put(ping_stats, CurrentIp(s), Inf)
       ELSE /\ ping_stats' = Put(ping_stats, CurrentIp(s), res[1])
            /\ pr' = [pr EXCEPT ![s].pc = "compare", ![s].ping_time = res[1],
                                  ![s].incumbent = (obs.writes
                                                    /\ best_route = CurrentIp(s))]
            /\ obs' = ObsHeard(obs, CurrentIp(s), best_route)
    /\ UNCHANGED <<is_running, game_ports, windivert, handles, best_route,
                   last_write, rx>>
    /\ UNCHANGED <<dvars, lvars, ovars>>

\* Lines 39-50: one ping.  Without "time=" in its output nothing is
\* recorded; with it the latency is stored in ping_stats.
PrPing(s, res) ==
    /\ pr[s].pc = "ping"
    /\ IF res = << >>
       THEN /\ pr' = [pr EXCEPT ![s] = Advance(pr[s])]
            /\ obs' = ObsEnd(ObsMiss(ObsLost(obs, CurrentIp(s), best_route)),
                             LastIp(s))
            /\ UNCHANGED ping_stats
       ELSE /\ ping_stats' = Put(ping_stats, CurrentIp(s), res[1])
            /\ pr' = [pr EXCEPT ![s].pc = "compare", ![s].ping_time = res[1],
                                  ![s].incumbent = (obs.writes
                                                    /\ best_route = CurrentIp(s))]
            /\ obs' = ObsHeard(obs, CurrentIp(s), best_route)
    /\ UNCHANGED <<is_running, game_ports, windivert, handles, best_route,
                   last_write, rx>>
    /\ UNCHANGED <<dvars, lvars, ovars>>

\* Lines 53-55: publish ip as the best route if it is better.  last_write
\* is "redundant" when the write put the ip that was the best route already
\* when its sample was recorded and still is, and "fresh" otherwise.
PrCompare(s) ==
    /\ pr[s].pc = "compare"
    /\ IF IsBetter(pr[s].ping_time, ping_stats, best_route)
       THEN /\ best_route' = CurrentIp(s)
            /\ last_write' = IF best_route = CurrentIp(s) /\ pr[s].incumbent
                             THEN "redundant"
                             ELSE "fresh"
            /\ obs' = ObsEnd(ObsMove(obs, best_route # None
                                          /\ best_route # CurrentIp(s)),
                             LastIp(s))
       ELSE /\ obs' = ObsEnd(obs, LastIp(s))
            /\ UNCHANGED <<best_route, last_write>>
    /\ pr' = [pr EXCEPT ![s] = Advance(pr[s])]
    /\ UNCHANGED <<is_running, game_ports, windivert, handles, ping_stats, rx>>
    /\ UNCHANGED <<dvars, lvars, ovars>>

(***************************************************************************)
(* The packet handler with its callers.                                    *)
(***************************************************************************)
Next ==
    \/ \E c \in Callers, ports \in PortSets, ips \in TargetLists :
          \/ StartCaptureRunning(c, ports, ips)
          \/ StartCaptureFail(c, ports, ips)
          \/ StartCapture(c, ports, ips)
    \/ StopCapture
    \/ \E c \in Callers :
          \/ RxHead(c)
          \/ \E p \in Packets : RxRecv(c, p)
          \/ RxRecvError(c)
          \/ RxProcess(c)
          \/ RxSend(c)
          \/ RxSendError(c)
    \/ \E s \in Handles :
          \/ PrHead(s)
          \/ \E res \in EnginePingResults : PrPing(s, res)
          \/ PrCompare(s)

Spec == Init /\ [][Next]_vars

\* The same, with the history of the writes of best_route kept.
SpecRestart == InitRestart /\ [][Next]_vars

(***************************************************************************)
(* One capture session with two candidates, its probe cycles recorded.     *)
(***************************************************************************)
FirstSession == \A h \in Handles : handles[h].state = "unused"

NextProbe ==
    \/ \E ports \in PortSets, ips \in ProbeTargetLists :
          \/ FirstSession /\ StartCapture("t1", ports, ips)
          \/ StartCaptureRunning("t2", ports, ips)
    \/ StopCapture
    \/ RxHead("t1")
    \/ \E p \in Packets : RxRecv("t1", p)
    \/ RxRecvError("t1")
    \/ RxProcess("t1")
    \/ RxSend("t1")
    \/ RxSendError("t1")
    \/ \E s \in Handles :
          \/ PrHead(s)
          \/ \E res \in PingResults : PrPing(s, res)
          \/ PrCompare(s)

SpecProbe == InitProbe /\ [][NextProbe]_vars

(***************************************************************************)
(* The probe thread of one capture session with two candidates whose       *)
(* latencies may be far apart, the answers of each cycle recorded.  The    *)
(* receive loop of the session, which does not act on the probe thread     *)
(* unless it fails, is left waiting.                                       *)
(***************************************************************************)
NextCycle ==
    \/ \E ports \in PortSets, ips \in ProbeTargetLists :
          FirstSession /\ StartCapture("t1", ports, ips)
    \/ StopCapture
    \/ \E s \in Handles :
          \/ PrHead(s)
          \/ \E res \in CycleResults : PrPing(s, res)
          \/ PrCompare(s)

SpecCycle == InitCycle /\ [][NextCycle]_vars

(***************************************************************************)
(* Properties of the packet handler.                                       *)
(***************************************************************************)
Reinjected(c) == rx[c].pc = "sent"

\* C1: a game packet (source or destination port monitored) that the
\* receive loop reinjects after a best route R was published carries R as
\* its destination address: R is the route the loop read when it processed
\* the packet, which is the published one unless another was published
\* between the packet's reception and its reinjection.
C1_RewrittenToBestRoute ==
    \A c \in Callers :
        (Reinjected(c) /\ rx[c].game /\ rx[c].route # None)
            => rx[c].packet.dst_addr = rx[c].route

C1_Witness ==
    \E c \in Callers :
        /\ Reinjected(c) /\ rx[c].game
        /\ rx[c].route # None /\ rx[c].route = best_route
        /\ rx[c].packet.dst_addr # rx[c].orig.dst_addr

\* C2: while no best route is published, a reinjected game packet is the
\* packet as it was received: address, ports and payload unchanged.
C2_UnmodifiedWithoutRoute ==
    \A c \in Callers :
        (Reinjected(c) /\ best_route = None) => rx[c].packet = rx[c].orig

C2_Witness ==
    \E c \in Callers :
        /\ Reinjected(c) /\ rx[c].game /\ best_route = None
        /\ \E s \in Handles : pr[s].pc # "none"

\* C3: a packet whose source and destination port are both outside the
\* monitored port set is reinjected as it was received, whatever the best
\* route is.
C3_NonGamePacketUntouched ==
    \A c \in Callers :
        (Reinjected(c) /\ ~rx[c].game) => rx[c].packet = rx[c].orig

C3_Witness ==
    \E c \in Callers :
        /\ Reinjected(c) /\ ~rx[c].game /\ best_route # None
        /\ ~IsGamePacket(rx[c].orig, game_ports)

\* C4: a packet the receive loop holds while the capture is running is
\* reinjected: the loop does not give it up (a failing send falls back to
\* sending the original packet).
C4_NeverDropped ==
    [][\A c \in Callers :
          (rx[c].pc \in {"got", "send"} /\ is_running)
              => rx'[c].pc \in {"got", "send", "sent"}]_vars

\* C5: the best route changes from an incumbent to another endpoint only
\* if the new sample is lower than the incumbent's recorded latency by the
\* hysteresis margin, here 10 %.
C5_SwitchNeedsMargin ==
    [][(best_route # None /\ best_route' # best_route)
          => \E s \in Handles :
                /\ pr[s].pc = "compare"
                /\ 10 * pr[s].ping_time
                      <= 9 * Get(ping_stats, best_route, Inf)]_vars

\* C6: with latencies that differ by less than the margin the best route
\* does not flip every cycle: no two probe cycles in a row both replace the
\* published best route.
C6_NoFlipEveryCycle == obs.flips < 2

\* The candidates of thread s whose recorded latency is minimal.
MinCandidates(s) ==
    {ip \in DOMAIN ping_stats :
        /\ \E i \in DOMAIN pr[s].ips : pr[s].ips[i] = ip
        /\ \A i \in DOMAIN pr[s].ips :
              pr[s].ips[i] \in DOMAIN ping_stats
                  => ping_stats[ip] <= ping_stats[pr[s].ips[i]]}

\* C7: when the first probe cycle in which every candidate returned a
\* sample has completed, the best route is a candidate of minimal latency.
C7_FirstFullCycleMinimum ==
    \A s \in Handles :
        (obs.full = 1 /\ pr[s].pc = "head") => best_route \in MinCandidates(s)

\* C8: a sample for the endpoint that is already the best route causes no
\* write of the best route and no "New best route" line.
C8_NoRedundantPublish == last_write # "redundant"

\* C9: within a probe cycle the best route is written only when the cycle
\* completes, after the last candidate has been probed.
C9_PublishedAtCycleEnd ==
    [][best_route' # best_route
          => \E s \in Handles : pr[s].pc = "compare" /\ LastIp(s)]_vars

(***************************************************************************)
(* GameDetector.  A path is the sequence of its segments (split at         *)
(* os.sep).  The substring tests of _is_steam_game are tests on the        *)
(* segments: of the catalogue, only the segment "steamapps2" contains a    *)
(* word that is tested for, and no path holds steam_path elsewhere than at *)
(* its start.                                                              *)
(***************************************************************************)
\* The processes psutil can list, by pid (process_iter yields them in pid
\* order): a system process whose exe() raises AccessDenied, the Steam
\* client, two games of the library and a copy of Steam's overlay helper
\* that lies in the library.
Pids == 1..5

\* Further programs: a tool outside the library, in a directory "common";
\* a mod below steamapps but not below common; an installer and a demo in a
\* second library directory "steamapps2".  SpecLibrary runs these and the
\* system process.
LibraryPids == {1, 6, 7, 8, 9}

Catalog ==
    <<[name |-> "System", exe |-> << >>, denied |-> TRUE],
      [name |-> "steam.exe", exe |-> <<"C:", "Steam", "steam.exe">>,
       denied |-> FALSE],
      [name |-> "Game.exe",
       exe |-> <<"C:", "Steam", "steamapps", "common", "Game", "Game.exe">>,
       denied |-> FALSE],
      [name |-> "Other.exe",
       exe |-> <<"C:", "Steam", "steamapps", "common", "Other", "Other.exe">>,
       denied |-> FALSE],
      [name |-> "GameOverlayUI.exe",
       exe |-> <<"C:", "Steam", "steamapps", "common", "Overlay",
                 "GameOverlayUI.exe">>,
       denied |-> FALSE],
      [name |-> "Tool.exe",
       exe |-> <<"D:", "Tools", "common", "Tool", "Tool.exe">>,
       denied |-> FALSE],
      [name |-> "hl2.exe",
       exe |-> <<"C:", "Steam", "steamapps", "sourcemods", "Mod", "bin",
                 "hl2.exe">>,
       denied |-> FALSE],
      [name |-> "Setup.exe",
       exe |-> <<"C:", "Steam", "steamapps2", "bin", "Setup.exe">>,
       denied |-> FALSE],
      [name |-> "Run.exe",
       exe |-> <<"C:", "Steam", "steamapps2", "Demo", "Run.exe">>,
       denied |-> FALSE]>>

IGNORE_PROCESSES ==
    {"steam.exe", "steamservice.exe", "steamwebhelper.exe",
     "GameOverlayUI.exe", "Steam.exe", "cef.win7x64.exe", "steamclean.exe"}

\* str.lower() on the segments of the catalogue.
Lower(t) ==
    CASE t = "C:" -> "c:"
      [] t = "Steam" -> "steam"
      [] t = "System" -> "system"
      [] t = "Game" -> "game"
      [] t = "Other" -> "other"
      [] t = "Overlay" -> "overlay"
      [] t = "Game.exe" -> "game.exe"
      [] t = "Other.exe" -> "other.exe"
      [] t = "GameOverlayUI.exe" -> "gameoverlayui.exe"
      [] t = "D:" -> "d:"
      [] t = "Tools" -> "tools"
      [] t = "Tool" -> "tool"
      [] t = "Tool.exe" -> "tool.exe"
      [] t = "Mod" -> "mod"
      [] t = "Setup" -> "setup"
      [] t = "Setup.exe" -> "setup.exe"
      [] t = "Demo" -> "demo"
      [] t = "Run" -> "run"
      [] t = "Run.exe" -> "run.exe"
      [] OTHER -> t

LowerPath(path) == [i \in 1..Len(path) |-> Lower(path[i])]

\* str.title() on the segments of the catalogue.
Title(t) ==
    CASE Lower(t) = "c:" -> "C:"
      [] Lower(t) = "steam" -> "Steam"
      [] Lower(t) = "system" -> "System"
      [] Lower(t) = "game" -> "Game"
      [] Lower(t) = "other" -> "Other"
      [] Lower(t) = "overlay" -> "Overlay"
      [] Lower(t) = "steamapps" -> "Steamapps"
      [] Lower(t) = "common" -> "Common"
      [] Lower(t) = "game.exe" -> "Game.Exe"
      [] Lower(t) = "other.exe" -> "Other.Exe"
      [] Lower(t) = "steam.exe" -> "Steam.Exe"
      [] Lower(t) = "gameoverlayui.exe" -> "Gameoverlayui.Exe"
      [] Lower(t) = "d:" -> "D:"
      [] Lower(t) = "tools" -> "Tools"
      [] Lower(t) = "tool" -> "Tool"
      [] Lower(t) = "tool.exe" -> "Tool.Exe"
      [] Lower(t) = "sourcemods" -> "Sourcemods"
      [] Lower(t) = "mod" -> "Mod"
      [] Lower(t) = "bin" -> "Bin"
      [] Lower(t) = "hl2" -> "Hl2"
      [] Lower(t) = "hl2.exe" -> "Hl2.Exe"
      [] Lower(t) = "steamapps2" -> "Steamapps2"
      [] Lower(t) = "setup" -> "Setup"
      [] Lower(t) = "setup.exe" -> "Setup.Exe"
      [] Lower(t) = "demo" -> "Demo"
      [] Lower(t) = "run" -> "Run"
      [] Lower(t) = "run.exe" -> "Run.Exe"
      [] OTHER -> t

\* name.replace('.exe', '')
StripExe(t) ==
    CASE t = "Game.exe" -> "Game"
      [] t = "Other.exe" -> "Other"
      [] t = "steam.exe" -> "steam"
      [] t = "GameOverlayUI.exe" -> "GameOverlayUI"
      [] t = "Tool.exe" -> "Tool"
      [] t = "hl2.exe" -> "hl2"
      [] t = "Setup.exe" -> "Setup"
      [] t = "Run.exe" -> "Run"
      [] OTHER -> t

\* needle in hay
Contains(hay, needle) ==
    \E i \in 0..(Len(hay) - Len(needle)) :
        \A j \in 1..Len(needle) : hay[i + j] = needle[j]

HasSegment(path, t) == \E i \in 1..Len(path) : path[i] = t

\* word in path, for the words 'common' and 'steamapps': the word is a
\* segment of the path or lies within one.
InPath(path, word) ==
    \/ HasSegment(path, word)
    \/ word = "steamapps" /\ HasSegment(path, "steamapps2")

\* list.index(t), from 1; 0 stands for ValueError.
IndexOf(path, t) ==
    IF HasSegment(path, t)
    THEN CHOOSE i \in 1..Len(path) :
            path[i] = t /\ \A j \in 1..(i - 1) : path[j] # t
    ELSE 0

\* _is_steam_game
IsSteamGame(pid) ==
    LET p == Catalog[pid]
        exe_path == LowerPath(p.exe)
        root == LowerPath(steam_path)
    IN  IF p.denied \/ p.exe = << >> THEN FALSE
        ELSE IF Lower(p.name) \in IGNORE_PROCESSES THEN FALSE
        ELSE /\ Contains(exe_path, root)
             /\ (InPath(exe_path, "common")
                 \/ InPath(exe_path, "steamapps"))

\* A _get_game_name without the rule for 'steamapps'.
GetGameNameNoSteamapps(pid) ==
    LET p == Catalog[pid]
        path_parts == LowerPath(p.exe)
        n == Len(path_parts)
        common_idx == IndexOf(path_parts, "common")
        parent_dir == IF n >= 2 THEN p.exe[n - 1] ELSE ""
    IN  IF p.denied \/ p.exe = << >> THEN None
        ELSE IF common_idx # 0 /\ common_idx + 1 <= n
             THEN Title(path_parts[common_idx + 1])
        ELSE IF parent_dir # ""
                /\ Lower(parent_dir)
                     \notin {"bin", "binaries", "win64", "win32"}
             THEN Title(parent_dir)
        ELSE Title(StripExe(p.name))

\* _get_game_name
GetGameName(pid) ==
    LET p == Catalog[pid]
        path_parts == LowerPath(p.exe)
        n == Len(path_parts)
        common_idx == IndexOf(path_parts, "common")
        steamapps_idx == IndexOf(path_parts, "steamapps")
        parent_dir == IF n >= 2 THEN p.exe[n - 1] ELSE ""
    IN  IF p.denied \/ p.exe = << >> THEN None
        ELSE IF common_idx # 0 /\ common_idx + 1 <= n
             THEN Title(path_parts[common_idx + 1])
        ELSE IF steamapps_idx # 0 /\ steamapps_idx + 2 <= n
             THEN Title(path_parts[steamapps_idx + 2])
        ELSE IF parent_dir # ""
                /\ Lower(parent_dir)
                     \notin {"bin", "binaries", "win64", "win32"}
             THEN Title(parent_dir)
        ELSE Title(StripExe(p.name))

\* Lines 103-107: whether the for loop stops at this process.
Qualifies(pid) ==
    /\ ~Catalog[pid].denied
    /\ Catalog[pid].exe # << >>
    /\ IsSteamGame(pid)
    /\ GetGameName(pid) \notin {None, ""}

\* A for loop that an access error ends: no game if a process whose exe()
\* is denied comes before the first one that qualifies.
FirstGameUnlessDenied(pids) ==
    LET q == {pid \in pids : Qualifies(pid)}
        first == CHOOSE pid \in q : \A other \in q : pid <= other
    IN  IF q = {} THEN None
        ELSE IF \E pid \in pids : Catalog[pid].denied /\ pid < first
        THEN None
        ELSE GetGameName(first)

\* Lines 100-115: the game the for loop ends on, None if it ends on none.
FirstGame(pids) ==
    LET q == {pid \in pids : Qualifies(pid)}
    IN  IF q = {} THEN None
        ELSE GetGameName(CHOOSE pid \in q : \A other \in q : pid <= other)

\* Line 109
ShouldLaunchAlways(current, game_name) == TRUE
ShouldLaunch(current, game_name) == current # game_name

\* Line 118
ShouldCloseAlways(found_game, current) == ~found_game
ShouldClose(found_game, current) == ~found_game /\ current # None

Inc2(n) == IF n < 2 THEN n + 1 ELSE 2

Polled(o, found, launched) ==
    IF found = None THEN [NoPolls EXCEPT !.on = o.on]
    ELSE IF found = o.name
    THEN [o EXCEPT !.polls = Inc2(o.polls),
                   !.launches = IF launched THEN Inc2(o.launches)
                                ELSE o.launches]
    ELSE [NoPolls EXCEPT !.name = found, !.polls = 1,
                         !.launches = IF launched THEN 1 ELSE 0,
                         !.on = o.on]

\* Lines 102-115: the processes of the listing that raise when the for
\* loop inspects them, an exception that line 114 catches: those whose
\* exe() is denied and those that have exited since they were listed.  The
\* loop inspects the processes up to the first one that qualifies.
Raising(listed, running) ==
    {pid \in listed :
        /\ Catalog[pid].denied \/ pid \notin running
        /\ \A q \in listed \cap running : Qualifies(q) => pid < q}

PassedOver(o, raising) ==
    IF ~o.on THEN o
    ELSE [o EXCEPT !.skipped = IF raising = {} THEN 0
                               ELSE CHOOSE pid \in raising :
                                        \A other \in raising : pid <= other]

\* start (lines 130-138)
GdStart ==
    /\ ~gd_is_running
    /\ gd_is_running' = TRUE
    /\ gd_thread' = [pc |-> "head", snap |-> {}]
    /\ UNCHANGED <<current_game, procs, events, gobs>>
    /\ UNCHANGED <<steam_path, gd_stale>>
    /\ UNCHANGED <<pvars, obs, lvars, ovars>>

\* stop (lines 140-145): the join gives up after 1 s, the thread ends at
\* its next test of is_running.
GdStop ==
    /\ gd_is_running' = FALSE
    /\ UNCHANGED <<gd_thread, current_game, procs, events, gobs>>
    /\ UNCHANGED <<steam_path, gd_stale>>
    /\ UNCHANGED <<pvars, obs, lvars, ovars>>

\* Lines 97 and 101: the while test, then process_iter lists the pids.
GdHead ==
    /\ gd_thread.pc = "head"
    /\ gd_thread' = IF gd_is_running
                    THEN [pc |-> "scan", snap |-> procs]
                    ELSE NoThread
    /\ UNCHANGED <<gd_is_running, current_game, procs, events, gobs>>
    /\ UNCHANGED <<steam_path, gd_stale>>
    /\ UNCHANGED <<pvars, obs, lvars, ovars>>

\* Lines 100-124: the for loop over the listed processes (those that have
\* exited raise NoSuchProcess and are passed over), the launched or the
\* closed event.  on_game_launched runs in this thread, which polls again
\* only when the callback has returned.
GdScan ==
    /\ gd_thread.pc = "scan"
    /\ LET game_name == FirstGame(gd_thread.snap \cap procs)
           found_game == game_name # None
           launched == found_game /\ ShouldLaunch(current_game, game_name)
           closed == ShouldClose(found_game, current_game)
       IN  /\ current_game' = IF launched THEN game_name
                              ELSE IF closed THEN None
                              ELSE current_game
           /\ events' = IF launched
                        THEN Append(events, <<"launched", game_name>>)
                        ELSE IF closed THEN Append(events, <<"closed">>)
                        ELSE events
           /\ Len(events') <= MaxEvents
           /\ gd_thread' = [pc |-> IF launched THEN "callback" ELSE "head",
                            snap |-> {}]
           /\ gobs' = PassedOver(Polled(gobs, game_name, launched),
                                 Raising(gd_thread.snap, procs))
    /\ UNCHANGED <<gd_is_running, procs>>
    /\ UNCHANGED <<steam_path, gd_stale>>
    /\ UNCHANGED <<pvars, obs, lvars, ovars>>

\* on_game_launched returns or raises (line 126); then the sleep.
GdCallbackReturn ==
    /\ gd_thread.pc = "callback"
    /\ gd_thread' = [gd_thread EXCEPT !.pc = "head"]
    /\ UNCHANGED <<gd_is_running, current_game, procs, events, gobs>>
    /\ UNCHANGED <<steam_path, gd_stale>>
    /\ UNCHANGED <<pvars, obs, lvars, ovars>>

\* The user starts or quits a program.
ProcStart(pid) ==
    /\ pid \notin procs
    /\ procs' = procs \cup {pid}
    /\ UNCHANGED <<gd_is_running, gd_thread, current_game, events, gobs>>
    /\ UNCHANGED <<steam_path, gd_stale>>
    /\ UNCHANGED <<pvars, obs, lvars, ovars>>

ProcExit(pid) ==
    /\ pid \in procs
    /\ procs' = procs \ {pid}
    /\ UNCHANGED <<gd_is_running, gd_thread, current_game, events, gobs>>
    /\ UNCHANGED <<steam_path, gd_stale>>
    /\ UNCHANGED <<pvars, obs, lvars, ovars>>

\* BackgroundService starts the detector when no polling thread is left
\* (run, line 239) and stops it (stop, line 262).
NoPollingThread == gd_thread.pc = "none"

NextDetector ==
    \/ NoPollingThread /\ GdStart
    \/ GdStop
    \/ GdHead
    \/ GdScan
    \/ GdCallbackReturn
    \/ \E pid \in Pids :
          \/ ProcStart(pid)
          \/ ProcExit(pid)

SpecDetector == Init /\ [][NextDetector]_vars

(***************************************************************************)
(* stop() followed by start() while the polling thread is alive: the join  *)
(* of stop() gives up after 1 s, less than the thread's sleep of 2 s, and  *)
(* start() creates a second thread.  The steps of the thread left behind   *)
(* are taken with the test of line 109 apart from the write and the call   *)
(* of lines 111-112.                                                       *)
(***************************************************************************)
\* start (lines 130-138) after a stop() that left its thread alive, asleep
\* or listing the processes.
GdStartAgain ==
    /\ ~gd_is_running
    /\ gd_thread.pc \in {"head", "scan"}
    /\ gd_stale = NoStale
    /\ gd_is_running' = TRUE
    /\ gd_stale' = [pc |-> gd_thread.pc, snap |-> gd_thread.snap,
                    game_name |-> None]
    /\ gd_thread' = [pc |-> "head", snap |-> {}]
    /\ UNCHANGED <<current_game, steam_path, procs, events, gobs>>
    /\ UNCHANGED <<pvars, obs, lvars, ovars>>

\* Lines 97 and 101, in the thread left behind.
StaleHead ==
    /\ gd_stale.pc = "head"
    /\ gd_stale' = IF gd_is_running
                   THEN [gd_stale EXCEPT !.pc = "scan", !.snap = procs]
                   ELSE NoStale
    /\ UNCHANGED <<gd_is_running, gd_thread, current_game, steam_path, procs,
                   events, gobs>>
    /\ UNCHANGED <<pvars, obs, lvars, ovars>>

\* Lines 100-109 and 118-124, in the thread left behind: the for loop up to
\* the test of current_game, or the closed event.
StaleTest ==
    /\ gd_stale.pc = "scan"
    /\ LET game_name == FirstGame(gd_stale.snap \cap procs)
           found_game == game_name # None
           launched == found_game /\ ShouldLaunch(current_game, game_name)
           closed == ShouldClose(found_game, current_game)
       IN  /\ gd_stale' = IF launched
                          THEN [pc |-> "launch", snap |-> {},
                                game_name |-> game_name]
                          ELSE [NoStale EXCEPT !.pc = "head"]
           /\ current_game' = IF closed THEN None ELSE current_game
           /\ events' = IF closed THEN Append(events, <<"closed">>)
                        ELSE events
           /\ Len(events') <= MaxEvents
    /\ UNCHANGED <<gd_is_running, gd_thread, steam_path, procs, gobs>>
    /\ UNCHANGED <<pvars, obs, lvars, ovars>>

\* Lines 110-113 and 124, in the thread left behind: current_game is set,
\* on_game_launched is called and returns.
StaleLaunch ==
    /\ gd_stale.pc = "launch"
    /\ current_game' = gd_stale.game_name
    /\ events' = Append(events, <<"launched", gd_stale.game_name>>)
    /\ Len(events') <= MaxEvents
    /\ gd_stale' = [NoStale EXCEPT !.pc = "head"]
    /\ UNCHANGED <<gd_is_running, gd_thread, steam_path, procs, gobs>>
    /\ UNCHANGED <<pvars, obs, lvars, ovars>>

\* The games are pids 3 and 4.
NextRejoin ==
    \/ NoPollingThread /\ GdStart
    \/ GdStop
    \/ GdStartAgain
    \/ GdHead
    \/ GdScan
    \/ GdCallbackReturn
    \/ StaleHead
    \/ StaleTest
    \/ StaleLaunch
    \/ \E pid \in {3, 4} :
          \/ ProcStart(pid)
          \/ ProcExit(pid)

SpecRejoin == Init /\ [][NextRejoin]_vars

(***************************************************************************)
(* The detector with the steam_path that SteamManager has found, which is  *)
(* empty if Steam is not installed in one of the usual places, polling the *)
(* programs in and around the library.                                     *)
(***************************************************************************)
InitLibrary ==
    /\ InitPacketHandler
    /\ InitSteamManager
    /\ InitOptimizer
    /\ gd_is_running = FALSE
    /\ gd_thread = NoThread
    /\ gd_stale = NoStale
    /\ current_game = None
    /\ steam_path \in SteamPaths
    /\ procs = {}
    /\ events = << >>
    /\ gobs = [NoPolls EXCEPT !.on = TRUE]
    /\ obs = NoObs

\* No program starts or exits during the few milliseconds of a listing.
BetweenPolls == gd_thread.pc # "scan"

NextLibrary ==
    \/ NoPollingThread /\ GdStart
    \/ GdHead
    \/ GdScan
    \/ GdCallbackReturn
    \/ \E pid \in LibraryPids :
          \/ BetweenPolls /\ Cardinality(procs) < MaxRunning /\ ProcStart(pid)
          \/ BetweenPolls /\ ProcExit(pid)

SpecLibrary == InitLibrary /\ [][NextLibrary]_vars

(***************************************************************************)
(* Properties of the game detector.                                        *)
(***************************************************************************)
\* C10: over polls in a row that find the same game as the first
\* qualifying process, on_game_launched is called exactly once, by the
\* first of these polls.
C10_LaunchedOncePerRun == gobs.name # None => gobs.launches = 1

C10_Witness ==
    /\ gobs.name # None
    /\ gobs.polls = 2
    /\ gobs.launches = 1
    /\ events # << >>
    /\ events[Len(events)] = <<"launched", gobs.name>>

\* The last callback the detector has invoked, << >> if none.
LastEvent == IF events = << >> THEN << >> ELSE events[Len(events)]

\* C11: on_game_closed is called only right after a launched event (once
\* per disappearance, never while no game is current); after a poll that
\* finds no qualifying process no game is current, and when a poll finds
\* the process again it is current again with a launched event of its own.
C11_ClosedOncePerExit ==
    /\ \A i \in 1..Len(events) :
          events[i] = <<"closed">> => i > 1 /\ events[i - 1][1] = "launched"
    /\ current_game = gobs.name
    /\ current_game = None <=> LastEvent \in {<< >>, <<"closed">>}
    /\ current_game # None => LastEvent = <<"launched", current_game>>

C11_Witness ==
    /\ events = <<<<"launched", "Game">>, <<"closed">>, <<"launched", "Game">>>>
    /\ current_game = "Game"

\* C12: on_game_launched is called only by a poll that sees a process
\* whose name is no entry of IGNORE_PROCESSES: helper processes alone,
\* wherever their executables lie, never launch a game.
C12_HelpersNeverLaunch ==
    [][(Len(events') > Len(events) /\ LastEvent'[1] = "launched")
          => \E pid \in gd_thread.snap \cap procs :
                Catalog[pid].name \notin IGNORE_PROCESSES]_vars

(***************************************************************************)
(* SteamManager: server detection from the game's log files.  A file is    *)
(* the sequence of its lines and sizes and offsets count lines.            *)
(***************************************************************************)
Max(a, b) == IF a >= b THEN a ELSE b

\* seq[-n:]
LastN(seq, n) == SubSeq(seq, Max(1, Len(seq) - n + 1), Len(seq))

\* f.seek(offset); f.readlines(): the lines from offset to the end of the
\* file as it is when it is read, none if offset is at or beyond the end.
ReadFrom(content, offset) == SubSeq(content, offset + 1, Len(content))

\* re.search(pattern, line) and match.group(1), for the pattern
\* "Selected Region:\s*([A-Z]+)"; None for no match.
Match(line) ==
    CASE line = "Selected Region: EU" -> "EU"
      [] line = "Selected Region: NA" -> "NA"
      [] OTHER -> None

\* Lines 268-274: the region of the last line that matches.
RECURSIVE FindRegion(_)
FindRegion(lines) ==
    IF lines = << >> THEN None
    ELSE IF Match(lines[Len(lines)]) # None THEN Match(lines[Len(lines)])
    ELSE FindRegion(SubSeq(lines, 1, Len(lines) - 1))

\* Lines 245-246: whether the file is read at all.
Changed(file, latest_log, current_size, size) ==
    file # latest_log \/ current_size # size

\* Line 257: where the read of a newly selected file starts.
TailStartWhole(current_size) == 0
TailStart(current_size) == Max(0, current_size - Window)

\* Lines 255-262: where the read starts.
StartOffset(file, latest_log, current_size, size) ==
    IF file # latest_log THEN TailStart(current_size) ELSE size

\* set_current_game (lines 281-287), called once, before the monitoring.
SetCurrentGame(g) ==
    /\ sm_current_game = NoGame
    /\ sm_current_game' = g
    /\ current_server' = NoServer
    /\ UNCHANGED <<logs, newest, current_log_file, last_log_size,
                   stop_monitoring, monitoring_thread, server_events, lobs>>
    /\ UNCHANGED <<pvars, obs, dvars, ovars>>

\* start_server_monitoring (lines 185-194), called once.
StartServerMonitoring ==
    /\ monitoring_thread.pc = "none"
    /\ ~stop_monitoring
    /\ stop_monitoring' = FALSE
    /\ monitoring_thread' = [NoMonitor EXCEPT !.pc = "idle"]
    /\ UNCHANGED <<logs, newest, sm_current_game, current_log_file,
                   last_log_size, current_server, server_events, lobs>>
    /\ UNCHANGED <<pvars, obs, dvars, ovars>>

\* stop_server_monitoring (lines 196-201)
StopServerMonitoring ==
    /\ monitoring_thread.pc # "none"
    /\ stop_monitoring' = TRUE
    /\ UNCHANGED <<logs, newest, sm_current_game, current_log_file,
                   last_log_size, current_server, monitoring_thread,
                   server_events, lobs>>
    /\ UNCHANGED <<pvars, obs, dvars, ovars>>

\* Line 205: the loop ends when the event is set.
SmExit ==
    /\ monitoring_thread.pc = "idle"
    /\ stop_monitoring
    /\ monitoring_thread' = NoMonitor
    /\ UNCHANGED <<logs, newest, sm_current_game, current_log_file,
                   last_log_size, current_server, stop_monitoring,
                   server_events, lobs>>
    /\ UNCHANGED <<pvars, obs, dvars, ovars>>

\* Lines 205-251: a cycle selects the newest log file and measures it; it
\* ends here, with no detection, unless the file or its size has changed
\* and the game has a pattern.
SmStat ==
    /\ monitoring_thread.pc = "idle"
    /\ ~stop_monitoring
    /\ sm_current_game # NoGame
    /\ newest # None
    /\ LET latest_log == newest
           current_size == Len(logs[newest])
       IN  IF /\ Changed(current_log_file, latest_log, current_size,
                         last_log_size)
              /\ sm_current_game.server_log_pattern
           THEN monitoring_thread' =
                    [pc |-> "read", latest_log |-> latest_log,
                     current_size |-> current_size]
           ELSE UNCHANGED monitoring_thread
    /\ UNCHANGED <<logs, newest, sm_current_game, current_log_file,
                   last_log_size, current_server, stop_monitoring,
                   server_events, lobs>>
    /\ UNCHANGED <<pvars, obs, dvars, ovars>>

\* Lines 254-274 and 213-217: the cycle reads the file, records the file
\* and the size it had measured, looks for a region and reports it if the
\* new server differs from current_server.  The timestamp is the time of
\* the detection, later than that of any earlier one.
SmRead ==
    /\ monitoring_thread.pc = "read"
    /\ LET latest_log == monitoring_thread.latest_log
           current_size == monitoring_thread.current_size
           content == logs[latest_log]
           new_file == current_log_file # latest_log
           start == StartOffset(current_log_file, latest_log, current_size,
                                last_log_size)
           read == ReadFrom(content, start)
           lines == IF new_file THEN LastN(read, TailLines) ELSE read
           region == FindRegion(lines)
           new_server == IF region = None THEN NoServer
                         ELSE [region |-> region,
                               timestamp |-> Len(server_events) + 1]
           report == new_server # NoServer /\ new_server # current_server
       IN  /\ current_log_file' = latest_log
           /\ last_log_size' = current_size
           /\ current_server' = IF report THEN new_server ELSE current_server
           /\ server_events' = IF report THEN Append(server_events, region)
                               ELSE server_events
           /\ Len(server_events') <= MaxServerEvents
           /\ lobs' = [file |-> latest_log, prev |-> current_log_file,
                       from |-> start, upto |-> Len(content),
                       hi |-> IF new_file THEN Max(start, Len(content))
                              ELSE Max(lobs.hi, Len(content))]
    /\ monitoring_thread' = [NoMonitor EXCEPT !.pc = "idle"]
    /\ UNCHANGED <<logs, newest, sm_current_game, stop_monitoring>>
    /\ UNCHANGED <<pvars, obs, dvars, ovars>>

\* The lines of all the log files.
TotalLines == Len(logs["f1"]) + Len(logs["f2"])

\* The game appends a line to a log file.
LogAppend(f, line) ==
    /\ TotalLines < MaxLog
    /\ logs' = [logs EXCEPT ![f] = Append(@, line)]
    /\ newest' = f
    /\ UNCHANGED <<sm_current_game, current_log_file, last_log_size,
                   current_server, stop_monitoring, monitoring_thread,
                   server_events, lobs>>
    /\ UNCHANGED <<pvars, obs, dvars, ovars>>

\* The game starts a log file afresh: its lines are gone.
LogTruncate(f) ==
    /\ logs[f] # << >>
    /\ logs' = [logs EXCEPT ![f] = << >>]
    /\ newest' = f
    /\ lobs' = IF current_log_file = f THEN [lobs EXCEPT !.hi = 0] ELSE lobs
    /\ UNCHANGED <<sm_current_game, current_log_file, last_log_size,
                   current_server, stop_monitoring, monitoring_thread,
                   server_events>>
    /\ UNCHANGED <<pvars, obs, dvars, ovars>>

NextLog ==
    \/ \E g \in Games : SetCurrentGame(g)
    \/ StartServerMonitoring
    \/ StopServerMonitoring
    \/ SmExit
    \/ SmStat
    \/ SmRead
    \/ \E f \in LogFiles :
          \/ \E line \in LogLines : LogAppend(f, line)
          \/ LogTruncate(f)

SpecLog == Init /\ [][NextLog]_vars

(***************************************************************************)
(* Properties of the server detection.                                     *)
(***************************************************************************)
\* C13: current_server is replaced, and on_server_change called, only
\* when the detected region differs from the region of the stored
\* current_server.
C13_ReportOnlyNewRegion ==
    [][(current_server' # current_server /\ current_server' # NoServer)
          => current_server'.region # current_server.region]_vars

\* A cycle reads (lines 254-262) the file that is already the tailed one.
ReadsTailedFile ==
    /\ monitoring_thread.pc = "read"
    /\ monitoring_thread'.pc = "idle"
    /\ current_log_file = monitoring_thread.latest_log

\* C14: while a file stays the tailed file, a cycle scans nothing that an
\* earlier cycle has scanned: its read starts at or after the highest
\* offset scanned so far.
C14_ScannedOnce == [][ReadsTailedFile => lobs'.from >= lobs.hi]_vars

\* C15: a cycle that finds the tailed file still the newest and of the
\* size it had when the previous read ended reads nothing (and so detects
\* and reports nothing).
C15_UnchangedFileNotRead ==
    [][(monitoring_thread.pc = "idle" /\ monitoring_thread'.pc = "read")
          => ~(/\ newest = current_log_file
               /\ lobs.file = newest
               /\ Len(logs[newest]) = lobs.upto)]_vars

\* C16: the recorded offset is at most the size of the tailed file.
C16_OffsetWithinFile ==
    current_log_file # None => last_log_size <= Len(logs[current_log_file])

AppId(name) == IF name = "Game" THEN 730 ELSE 252490

\* SteamManager._get_network_ports (lines 136-153), on the two app ids.
GetNetworkPorts(app_id) ==
    CASE app_id = 730 -> {27015, 27016, 27017, 27018, 27019, 27020}
      [] app_id = 252490 -> {28015, 28016, 28017}
      [] OTHER -> {27015}

\* self.steam_manager.get_game_ports(app_id), line 196: SteamManager
\* defines no get_game_ports, the attribute lookup raises.
AttributeError == "AttributeError"

GetGamePorts(app_id) == AttributeError

\* start_optimization(game_name), lines 163-220, up to its start_capture:
\* where it ends.  The VPN is connected after the ports are looked up
\* (line 200).
StartOptimization(game_name, installed) ==
    IF ~installed THEN "no game"
    ELSE IF GetGamePorts(AppId(game_name)) = AttributeError THEN "error"
    ELSE "capture"

\* _on_game_launched (lines 147-153) called at line 112 of
\* game_detector.py.  If start_optimization gets as far as start_capture
\* the polling thread goes on into _process_packets.
OnGameLaunched(installed) ==
    /\ gd_thread.pc = "callback"
    /\ LET end == StartOptimization(current_game, installed)
       IN  /\ gd_thread' = [gd_thread EXCEPT !.pc = end]
           /\ IF end = "capture"
              THEN OpenAndProcess("t1", GetGamePorts(AppId(current_game)),
                                  << >>)
              ELSE UNCHANGED pvars
    /\ UNCHANGED <<gd_is_running, current_game, procs, events, gobs>>
    /\ UNCHANGED <<steam_path, gd_stale>>
    /\ UNCHANGED <<obs, lvars, ovars>>

\* start_optimization has logged its error and returns (lines 183, 220);
\* the polling thread is back in _monitor_games (line 128).
OnGameLaunchedReturn ==
    /\ gd_thread.pc \in {"no game", "error"}
    /\ gd_thread' = [gd_thread EXCEPT !.pc = "head"]
    /\ UNCHANGED <<gd_is_running, current_game, procs, events, gobs>>
    /\ UNCHANGED <<steam_path, gd_stale>>
    /\ UNCHANGED <<pvars, obs, lvars, ovars>>

\* The games are pids 3 and 4.  StopCapture is stop_optimization, of the
\* tray or of stop() (lines 222-225, 263).
NextService ==
    \/ NoPollingThread /\ GdStart
    \/ GdStop
    \/ GdHead
    \/ GdScan
    \/ \E installed \in BOOLEAN : OnGameLaunched(installed)
    \/ OnGameLaunchedReturn
    \/ StopCapture
    \/ \E pid \in {3, 4} :
          \/ ProcStart(pid)
          \/ ProcExit(pid)

SpecService == Init /\ [][NextService]_vars

(***************************************************************************)
(* Shutdown: BackgroundService.stop (lines 257-267) run by the main        *)
(* thread, "t2" here, with the statements of stop_capture taken one by     *)
(* one, against a capture that "t1" has started, its probe thread, the     *)
(* detector's polling thread and the log monitoring thread.  Nothing is    *)
(* started again once the shutdown has begun.                              *)
(***************************************************************************)
NotStopping == rx["t2"].pc = "idle"

\* stop, lines 259-262: the detector is stopped first (GameDetector.stop,
\* whose join gives up after 1 s).
ServiceStop ==
    /\ rx["t2"].pc = "idle"
    /\ gd_is_running' = FALSE
    /\ rx' = [rx EXCEPT !["t2"].pc = "stop"]
    /\ UNCHANGED <<is_running, game_ports, windivert, handles, ping_stats,
                   best_route, last_write, pr>>
    /\ UNCHANGED <<gd_thread, current_game, procs, events, gobs>>
    /\ UNCHANGED <<steam_path, gd_stale>>
    /\ UNCHANGED <<obs, lvars, ovars>>

\* stop_optimization -> stop_capture, lines 133-135: the test, and
\* is_running cleared.
StopFlag ==
    /\ rx["t2"].pc = "stop"
    /\ IF windivert # NoHandle /\ is_running
       THEN /\ is_running' = FALSE
            /\ rx' = [rx EXCEPT !["t2"].pc = "join"]
       ELSE /\ rx' = [rx EXCEPT !["t2"].pc = "stopped"]
            /\ UNCHANGED is_running
    /\ UNCHANGED <<game_ports, windivert, handles, ping_stats, best_route,
                   last_write, pr>>
    /\ UNCHANGED <<obs, dvars, lvars, ovars>>

\* Lines 136-137: the probe thread is joined, for at most 1 s.
StopJoin ==
    /\ rx["t2"].pc = "join"
    /\ rx' = [rx EXCEPT !["t2"].pc = "close"]
    /\ UNCHANGED <<is_running, game_ports, windivert, handles, ping_stats,
                   best_route, last_write, pr>>
    /\ UNCHANGED <<obs, dvars, lvars, ovars>>

\* stop_capture that returns without closing the handle.
StopCloseSkip ==
    /\ rx["t2"].pc = "close"
    /\ rx' = [rx EXCEPT !["t2"].pc = "stopped"]
    /\ UNCHANGED <<is_running, game_ports, windivert, handles, ping_stats,
                   best_route, last_write, pr>>
    /\ UNCHANGED <<obs, dvars, lvars, ovars>>

\* Line 138: the handle is closed.
StopClose ==
    /\ rx["t2"].pc = "close"
    /\ handles' = [handles EXCEPT ![windivert].state = "closed"]
    /\ rx' = [rx EXCEPT !["t2"].pc = "stopped"]
    /\ UNCHANGED <<is_running, game_ports, windivert, ping_stats, best_route,
                   last_write, pr>>
    /\ UNCHANGED <<obs, dvars, lvars, ovars>>

NextShutdown ==
    \/ NotStopping /\ NoPollingThread /\ GdStart
    \/ GdHead
    \/ GdScan
    \/ \E ips \in TargetLists :
          NotStopping /\ FirstSession /\ StartCapture("t1", {1}, ips)
    \/ RxHead("t1")
    \/ \E p \in Packets : RxRecv("t1", p)
    \/ RxRecvError("t1")
    \/ RxProcess("t1")
    \/ RxSend("t1")
    \/ RxSendError("t1")
    \/ \E s \in Handles :
          \/ PrHead(s)
          \/ \E res \in EnginePingResults : PrPing(s, res)
          \/ PrCompare(s)
    \/ \E g \in Games : SetCurrentGame(g)
    \/ logs["f1"] = << >> /\ LogAppend("f1", "Selected Region: EU")
    \/ NotStopping /\ StartServerMonitoring
    \/ StopServerMonitoring
    \/ SmExit
    \/ SmStat
    \/ SmRead
    \/ ServiceStop
    \/ StopFlag
    \/ StopJoin
    \/ StopClose

SpecShutdown == Init /\ [][NextShutdown]_vars

\* Every thread that can take a step takes one: the scheduler starves no
\* thread, and a ping, a poll, a read and a join end.  No packet need ever
\* arrive (RxRecv is not among the steps that must happen).
FairShutdown ==
    /\ WF_vars(GdHead \/ GdScan)
    /\ WF_vars(RxHead("t1") \/ RxRecvError("t1") \/ RxProcess("t1")
                  \/ RxSend("t1") \/ RxSendError("t1"))
    /\ \A s \in Handles :
          WF_vars(PrHead(s) \/ (\E res \in EnginePingResults : PrPing(s, res))
                    \/ PrCompare(s))
    /\ WF_vars(SmExit \/ SmStat \/ SmRead)
    /\ WF_vars(StopFlag \/ StopJoin \/ StopClose)

SpecShutdownFair == SpecShutdown /\ FairShutdown

(***************************************************************************)
(* NetworkOptimizer (src/src/network/optimizer.py): optimize_path, called  *)
(* when the server's region changes, and the check_and_optimize of lines   *)
(* 505-525, which replaces the method of the same name of lines 264-286.   *)
(***************************************************************************)
\* Two of the regions of the configuration (lines 114-118).
Regions == {"EU", "NA"}

\* What _measure_latency can return (lines 288-317): None, here
\* NoLatency, when the ping fails or has no average, or the average in ms.
Measured == {NoLatency, 50, 70, 100}

\* Line 389: optimize_path goes on only for a region other than the
\* current one.
AppliesPath(region, current) == region # current

\* optimize_path (lines 386-403): for a new region, the region is recorded
\* and the TTL, the routing and the QoS of the region are applied.
OptimizePath(region) ==
    /\ current_region' = IF AppliesPath(region, current_region)
                         THEN region ELSE current_region
    /\ oobs' = [call |-> "optimize_path", latency |-> NoLatency,
                applied |-> AppliesPath(region, current_region)]
    /\ UNCHANGED best_routes
    /\ UNCHANGED <<pvars, obs, dvars, lvars>>

\* Lines 513-514: whether the measured latency becomes the best latency of
\* the region; "TypeError" when a None is compared with a number.
Improves(latency, region, routes) ==
    IF region \notin DOMAIN routes THEN "yes"
    ELSE IF latency = NoLatency \/ routes[region] = NoLatency THEN "TypeError"
    ELSE IF latency < routes[region] THEN "yes"
    ELSE "no"

\* Line 521: whether the conditions have degraded; "TypeError" as above.
Degraded(latency, best_latency) ==
    IF latency = NoLatency \/ best_latency = NoLatency THEN "TypeError"
    ELSE IF 10 * latency > 12 * best_latency THEN "yes"
    ELSE "no"

\* check_and_optimize (lines 505-525).  An exception ends the call at the
\* handler of line 524, after best_routes was written if it was.  The
\* optimize_path of line 522 is called with the current region.
CheckAndOptimize(latency) ==
    /\ IF current_region = None
       THEN /\ UNCHANGED best_routes
            /\ oobs' = [call |-> "check_and_optimize", latency |-> latency,
                        applied |-> FALSE]
       ELSE LET improves == Improves(latency, current_region, best_routes)
                routes == IF improves = "yes"
                          THEN Put(best_routes, current_region, latency)
                          ELSE best_routes
                degraded == IF improves = "TypeError" THEN "TypeError"
                            ELSE Degraded(latency, routes[current_region])
            IN  /\ best_routes' = routes
                /\ oobs' = [call |-> "check_and_optimize",
                            latency |-> latency,
                            applied |-> (degraded = "yes"
                                         /\ AppliesPath(current_region,
                                                        current_region))]
    /\ UNCHANGED current_region
    /\ UNCHANGED <<pvars, obs, dvars, lvars>>

NextOptimizer ==
    \/ \E region \in Regions : OptimizePath(region)
    \/ \E latency \in Measured : CheckAndOptimize(latency)

SpecOptimizer == Init /\ [][NextOptimizer]_vars

\* C18: start_capture returns to its caller once the session is open, the
\* receive loop running on a worker of its own: while the capture runs no
\* thread that called start_capture is inside the receive loop, so that a
\* detector whose callback started the capture goes on polling.
C18_CallerNotCaptured ==
    is_running => \A c \in Callers : rx[c].pc = "idle"

\* C23: when the launched callback has run for an installed game (auto
\* mode is on whenever the detector runs; the VPN is asked only after the
\* ports), the engine is running with exactly the ports of that game.
C23_LaunchStartsEngine ==
    [][(gd_thread.pc = "callback" /\ gd_thread'.pc \notin {"callback", "no game"})
          => /\ is_running'
             /\ game_ports' = GetNetworkPorts(AppId(current_game))]_vars

\* C24: the shutdown stops the detector first, then closes the capture
\* handle, then stops the probe loop: when stop_capture is under way the
\* detector has been stopped, and the probe thread has been joined only if
\* the handle is closed.
C24_ShutdownOrder ==
    /\ rx["t2"].pc \in {"stop", "join", "close", "stopped"} => ~gd_is_running
    /\ rx["t2"].pc = "close" => ~HandleOpen(windivert)

\* C25: after a shutdown request each loop of the stopped component ends,
\* the component not being started again: the polling loop after
\* GameDetector.stop, the log loop after stop_server_monitoring, the probe
\* loop and the receive loop after stop_capture.
C25_LoopsTerminate ==
    /\ rx["t2"].pc # "idle" ~> gd_thread.pc = "none"
    /\ stop_monitoring ~> monitoring_thread.pc = "none"
    /\ rx["t2"].pc = "stopped"
          ~> (rx["t1"].pc = "idle" /\ \A s \in Handles : pr[s].pc = "none")

C25_Witness ==
    /\ rx["t2"].pc = "stopped" /\ ~is_running /\ ~gd_is_running
    /\ stop_monitoring
    /\ gd_thread.pc = "scan"
    /\ monitoring_thread.pc = "read"
    /\ rx["t1"].pc = "recv"
    /\ \E s \in Handles : handles[s].state = "closed" /\ pr[s].pc = "ping"

\* C26: when open() fails, start_capture raises to its caller and leaves
\* the engine not running: while the handle whose open failed is the
\* current one the engine is not running, and no probe thread was started
\* with such a handle nor does a receive loop read from it.
C26_FailedOpenLeavesEngineStopped ==
    \A h \in Handles :
        handles[h].state = "failed"
            => /\ windivert = h => ~is_running
               /\ pr[h] = NoProber
               /\ \A c \in Callers : rx[c].h # h

C26_Witness ==
    \E h \in Handles :
        /\ handles[h].state = "failed" /\ windivert = h
        /\ \A c \in Callers : rx[c].pc = "idle"
        /\ \E s \in Handles : pr[s].pc = "ping"

\* C27: a stop_capture called after stop_capture has closed the session
\* fails with a Closed error: it does not return as a stop that succeeded.
C27_SecondStopFails ==
    [][(/\ rx["t2"].pc = "stop"
        /\ windivert # NoHandle
        /\ handles[windivert].state = "closed")
          => rx'["t2"].pc # "stopped"]_vars

\* C28: a reinjected packet differs from the packet as it was received in
\* its destination address at most: source address, both ports and payload
\* are those received.
C28_OnlyDestinationRewritten ==
    \A c \in Callers :
        Reinjected(c)
            => rx[c].packet = [rx[c].orig EXCEPT
                                  !.dst_addr = rx[c].packet.dst_addr]

C28_Witness ==
    \E c \in Callers :
        /\ Reinjected(c)
        /\ rx[c].packet.dst_addr # rx[c].orig.dst_addr
        /\ rx[c].packet.dst_addr = "B"

\* C29: at the end of every probe cycle no candidate's latest sample is
\* lower than the latest sample of the published best route by more than
\* the hysteresis margin, here 10 %.
C29_BestRouteMinimalEachCycle ==
    \A s \in Handles :
        (pr[s].pc = "head" /\ best_route \in DOMAIN ping_stats)
            => \A i \in DOMAIN pr[s].ips :
                  pr[s].ips[i] \in DOMAIN ping_stats
                      => 10 * ping_stats[pr[s].ips[i]]
                            >= 9 * ping_stats[best_route]

\* C30: when the ping of the best route has returned no latency in a cycle
\* in which another candidate has returned one, that route is not the best
\* route at the end of the cycle.
C30_UnreachableRouteReplaced ==
    \A s \in Handles :
        (pr[s].pc = "head" /\ obs.lost # None /\ obs.heard)
            => best_route # obs.lost

\* C19: the capture ends only by a call of stop_capture from outside the
\* receive loop: no step of a receive loop, a failing recv() or send()
\* included, makes the capture inactive.
C19_ErrorKeepsCapture ==
    [][(is_running /\ ~is_running') => rx' = rx]_vars

\* C20: a failure of the receive loop does not end the probe loop: no
\* probe thread leaves its loop after the exception handler of the receive
\* loop has ended the capture.
C20_ProbeSurvivesRxError ==
    [][\A s \in Handles :
          (pr[s].pc = "head" /\ pr'[s].pc = "none") => ~obs.err]_vars

\* C21: stop_capture discards the published best route: a capture session
\* begins with no published route, so that it reinjects game packets
\* unmodified until its own probe loop publishes one.
C21_SessionStartsWithoutRoute ==
    [][(~is_running /\ is_running') => best_route' = None]_vars

\* C22: once stop_capture has closed a session, the probe loop of that
\* session issues no further probe and writes neither the latency
\* statistics nor the best route.
C22_StoppedProbeIsSilent ==
    [][\A s \in Handles :
          (handles[s].state = "closed" /\ pr'[s] # pr[s])
              => /\ ping_stats' = ping_stats
                 /\ best_route' = best_route
                 /\ pr'[s].pc # "ping"]_vars

\* C31: a ping that returns no latency leaves the statistics, the entry of
\* its endpoint included, and the best route as they were, and the probe
\* thread goes on to the next endpoint of the cycle, if one is left.
C31_TimeoutChangesNothing ==
    [][\A s \in Handles :
          (pr[s].pc = "ping" /\ pr'[s] # pr[s] /\ pr'[s].pc # "compare")
              => /\ ping_stats' = ping_stats
                 /\ best_route' = best_route
                 /\ pr[s].idx < Len(pr[s].ips)
                       => /\ pr'[s].pc = "ping"
                          /\ pr'[s].idx = pr[s].idx + 1]_vars

\* The ping of the first endpoint, the best route with a recorded latency,
\* has returned nothing and the second endpoint is being probed.
C31_Witness ==
    \E s \in Handles :
        /\ pr[s].pc = "ping" /\ pr[s].idx = 2
        /\ obs.lost = pr[s].ips[1]
        /\ best_route = obs.lost
        /\ obs.lost \in DOMAIN ping_stats

\* C32: the receive loop never waits for the probe thread: a step of a
\* receive loop that holds a packet takes the packet on towards its
\* reinjection (processed, then sent: two steps of its own at most), and
\* acts on nothing the probe thread reads or writes, the best route being
\* only read; the loop does not stop or join the probe thread.
C32_ReceiveLoopIndependent ==
    [][\A c \in Callers :
          (rx[c].pc \in {"got", "send"} /\ rx'[c] # rx[c])
              => /\ rx[c].pc = "got" => rx'[c].pc = "send"
                 /\ rx[c].pc = "send" => rx'[c].pc = "sent"
                 /\ is_running' = is_running
                 /\ pr' = pr
                 /\ ping_stats' = ping_stats
                 /\ best_route' = best_route]_vars

\* C33: the launched and the closed events alternate, a launched one first:
\* no two launched events follow each other without a closed event between
\* them, whichever game the polls find.
C33_EventsAlternate ==
    \A i \in 1..Len(events) :
        /\ i % 2 = 1 => events[i][1] = "launched"
        /\ i % 2 = 0 => events[i] = <<"closed">>

\* C34: a process qualifies as a game only if its executable lies below
\* steam_path, the path a prefix of the executable's, and its name is not
\* excluded: a launched event is emitted only by a poll that sees such a
\* process, and never while steam_path is empty.
C34_OnlyLibraryProcessesQualify ==
    [][(Len(events') > Len(events) /\ LastEvent'[1] = "launched")
          => /\ steam_path # << >>
             /\ \E pid \in gd_thread.snap \cap procs :
                   LET exe == LowerPath(Catalog[pid].exe)
                       root == LowerPath(steam_path)
                   IN  /\ Len(exe) > Len(root)
                       /\ SubSeq(exe, 1, Len(root)) = root
                       /\ Catalog[pid].name \notin IGNORE_PROCESSES]_vars

\* C35: a process that raises an access error when a poll inspects it (its
\* exe() is denied, or it has exited since it was listed) is passed over:
\* a qualifying process listed after it is found by the same poll, which
\* makes it the current game, and the polling thread goes on.
C35_AccessErrorSkipped ==
    [][(gd_thread.pc = "scan" /\ gd_thread'.pc # "scan")
          => \A d \in gd_thread.snap, g \in gd_thread.snap \cap procs :
                (/\ Catalog[d].denied \/ d \notin procs
                 /\ d < g
                 /\ Qualifies(g))
                    => /\ current_game' # None
                       /\ gobs'.name = current_game'
                       /\ gd_thread'.pc \in {"head", "callback"}]_vars

\* The poll has passed over the system process, whose exe() is denied, and
\* has launched the game it found after it.
C35_Witness ==
    /\ gobs.skipped = 1
    /\ gobs.name # None
    /\ current_game = gobs.name
    /\ gd_thread.pc = "callback"
    /\ LastEvent = <<"launched", current_game>>

\* C36: the name a launched event carries is derived from the process the
\* poll stopped at, the first that qualifies, in this order: the segment
\* that follows 'common' in its path, else the name of the executable's
\* parent directory, else the process name without its extension, a later
\* rule being used only when the earlier ones yield nothing.
C36_NameByThreeRules ==
    [][(Len(events') > Len(events) /\ LastEvent'[1] = "launched")
          => \E pid \in gd_thread.snap \cap procs :
                LET path == LowerPath(Catalog[pid].exe)
                    n == Len(path)
                    common == IndexOf(path, "common")
                IN  /\ Qualifies(pid)
                    /\ \A q \in gd_thread.snap \cap procs :
                          Qualifies(q) => pid <= q
                    /\ LastEvent'[2] =
                          IF common # 0 /\ common < n
                          THEN Title(path[common + 1])
                          ELSE IF n >= 2 THEN Title(path[n - 1])
                          ELSE Title(StripExe(Catalog[pid].name))]_vars

\* C36, amended: the order is the segment that follows 'common', else the
\* segment two after 'steamapps', else the name of the parent directory
\* unless it is bin, binaries, win64 or win32, else the process name
\* without '.exe'.
C36_NameByFourRules ==
    [][(Len(events') > Len(events) /\ LastEvent'[1] = "launched")
          => \E pid \in gd_thread.snap \cap procs :
                LET path == LowerPath(Catalog[pid].exe)
                    n == Len(path)
                    common == IndexOf(path, "common")
                    steamapps == IndexOf(path, "steamapps")
                IN  /\ Qualifies(pid)
                    /\ \A q \in gd_thread.snap \cap procs :
                          Qualifies(q) => pid <= q
                    /\ LastEvent'[2] =
                          IF common # 0 /\ common < n
                          THEN Title(path[common + 1])
                          ELSE IF steamapps # 0 /\ steamapps + 1 < n
                          THEN Title(path[steamapps + 2])
                          ELSE IF n >= 2
                                  /\ path[n - 1] \notin
                                        {"bin", "binaries", "win64", "win32"}
                          THEN Title(path[n - 1])
                          ELSE Title(StripExe(Catalog[pid].name))]_vars

\* Three launches in a row: the demo, named after its parent directory;
\* the installer, whose parent directory is bin, named after its process;
\* the mod, named after the segment two after 'steamapps'.
C36_Witness ==
    events = <<<<"launched", "Demo">>, <<"launched", "Setup">>,
               <<"launched", "Mod">>>>

C38_OneProbeLoop ==
    [][\A s \in Handles :
          /\ (pr[s].pc = "head" /\ pr'[s].pc = "ping") => s = windivert
          /\ (pr[s].pc = "compare" /\ pr'[s].pc # "compare"
                 /\ best_route' # best_route) => s = windivert]_vars

\* C39: after stop() and start() one polling loop is live, so that a game
\* that is launched once is reported once: no launched event is followed
\* at once by a launched event for the same game.
C39_OneLaunchAfterRestart ==
    \A i \in 1..(Len(events) - 1) :
        events[i][1] = "launched" => events[i + 1] # events[i]

\* C40: when check_and_optimize has measured a latency above 1.2 times the
\* best latency recorded for the current region, it has applied the path
\* optimizations of the region again.
C40_DegradedPathReoptimized ==
    (/\ oobs.call = "check_and_optimize"
     /\ oobs.latency # NoLatency
     /\ current_region \in DOMAIN best_routes
     /\ best_routes[current_region] # NoLatency
     /\ 10 * oobs.latency > 12 * best_routes[current_region])
        => oobs.applied

=============================================================================
